---- MODULE Spec2Model ----
(***************************************************************************)
(* EV battery health report generator: battery_report.py (compute_soh,     *)
(* count_cycles_from_soc, detect_anomalies, generate_report and the        *)
(* command-line entry point) and api.py (the HTTP endpoint).                *)
(*                                                                         *)
(* The program keeps no state between calls.  One behaviour of the model    *)
(* is one invocation: from the idle state an entry point is called with an  *)
(* input drawn from a bounded set, and the state afterwards records the     *)
(* call, its argument and everything the caller can observe of it.          *)
(*                                                                         *)
(* Numbers.  Python floats are modelled by exact fixed-point integers:      *)
(*   capacities and energies    in 1/100 kWh                                *)
(*   cell voltages              in 1/100 V                                  *)
(*   pack voltage               in 1/10  V                                  *)
(*   temperatures, SoC, counts  in units                                    *)
(* A quotient is kept as a fraction [num, den] until it is rounded, and     *)
(* round(x, 2) yields an integer number of hundredths.  Arithmetic is       *)
(* exact (no binary floating-point error); a tie is rounded to even.        *)
(***************************************************************************)
EXTENDS Integers, Sequences, FiniteSets

VARIABLES pc, op, arg, ret, http, proc

vars == <<pc, op, arg, ret, http, proc>>

(***************************************************************************)
(* Bounds of the model.                                                     *)
(***************************************************************************)
MaxCells == 2
MaxHistory == 2
MaxSoc == 4
MaxClock == 2

(***************************************************************************)
(* Program constants (battery_report.py).                                   *)
(***************************************************************************)
HeuristicVLow == 320
HeuristicVHigh == 420
HeuristicSohLow == 30
HeuristicSohSpan == 70
DeepHigh == 90
DeepLow == 20
SpreadMajor == 10
SpreadMinor == 5
TempCritical == 60
TempWarning == 45
ImpliedLow == 25
ImpliedHigh == 45

(***************************************************************************)
(* Python values.  A dict entry is absent, None, or a value.                *)
(***************************************************************************)
Absent(d) == [tag |-> "absent", val |-> d]
Null(d) == [tag |-> "null", val |-> d]
Some(v) == [tag |-> "val", val |-> v]

\* 'k' in raw
In(raw, k) == raw[k].tag # "absent"
\* raw[k] is None
IsNone(raw, k) == raw[k].tag = "null"
\* bool(raw[k]) for a list-valued entry: None and [] are falsy
Truthy(raw, k) == raw[k].tag = "val" /\ Len(raw[k].val) > 0

Abs(x) == IF x < 0 THEN -x ELSE x

RECURSIVE SumSeq(_)
SumSeq(s) == IF s = <<>> THEN 0 ELSE Head(s) + SumSeq(Tail(s))

Max2(a, b) == IF a >= b THEN a ELSE b
Min2(a, b) == IF a <= b THEN a ELSE b

RECURSIVE MaxSeq(_)
MaxSeq(s) == IF Len(s) = 1 THEN s[1] ELSE Max2(Head(s), MaxSeq(Tail(s)))

RECURSIVE MinSeq(_)
MinSeq(s) == IF Len(s) = 1 THEN s[1] ELSE Min2(Head(s), MinSeq(Tail(s)))

\* a / b: a fraction, or ZeroDivisionError
truediv(a, b) ==
  IF b = 0 THEN [exc |-> "ZeroDivisionError", num |-> 0, den |-> 1]
  ELSE IF b < 0 THEN [exc |-> "", num |-> -a, den |-> -b]
  ELSE [exc |-> "", num |-> a, den |-> b]

\* nearest integer to n / d (d > 0), a tie going to the even neighbour
RoundHalfEven(n, d) ==
  LET q == n \div d
      r == n % d
  IN  IF 2 * r < d THEN q
      ELSE IF 2 * r > d THEN q + 1
      ELSE IF q % 2 = 0 THEN q ELSE q + 1

\* round(num / den, 2), in hundredths
round2(num, den) == RoundHalfEven(100 * num, den)

(***************************************************************************)
(* compute_soh                                                              *)
(***************************************************************************)
SohResult(p, m, c) ==
  [exc |-> "", soh_percent |-> p, method |-> m, confidence |-> c]

SohRaise(e) ==
  [exc |-> e, soh_percent |-> 0, method |-> "", confidence |-> ""]

\* SohFromRatio reading the capacity with a default of 0 and answering 0
\* when there is nothing to divide by
SohFromRatio_default(raw, xnum, xden, m, c) ==
  IF ~In(raw, "nominal_capacity_kwh") THEN SohResult(0, m, c)
  ELSE IF IsNone(raw, "nominal_capacity_kwh") THEN SohRaise("TypeError")
  ELSE LET q == truediv(xnum, xden * raw.nominal_capacity_kwh.val)
       IN  IF q.exc # "" THEN SohRaise(q.exc)
           ELSE SohResult(round2(q.num * 100, q.den), m, c)

\* (x / raw['nominal_capacity_kwh']) * 100 rounded, x = xnum / xden with
\* xden > 0; the lookup, the operand types and the divisor are checked in
\* Python's order
SohFromRatio(raw, xnum, xden, m, c) ==
  IF ~In(raw, "nominal_capacity_kwh") THEN SohRaise("KeyError")
  ELSE IF IsNone(raw, "nominal_capacity_kwh") THEN SohRaise("TypeError")
  ELSE LET q == truediv(xnum, xden * raw.nominal_capacity_kwh.val)
       IN  IF q.exc # "" THEN SohRaise(q.exc)
           ELSE SohResult(round2(q.num * 100, q.den), m, c)

MeasuredBranch(raw) ==
  IF IsNone(raw, "measured_capacity_kwh") THEN SohRaise("TypeError")
  ELSE SohFromRatio(raw, raw.measured_capacity_kwh.val, 1,
                    "measured_capacity", "high")

CycleHistoryBranch(raw) ==
  LET h == raw.cycle_history.val
      total_energy == SumSeq(h)
  IN  SohFromRatio(raw, total_energy, Len(h),
                   "cycle_history_estimate", "medium")

\* VoltageBranch with the result clamped to [0, 100]
VoltageBranch_clamped(raw) ==
  LET volts == [i \in 1..Len(raw.cells.val) |-> raw.cells.val[i].voltage]
      n == Len(volts)
      S == SumSeq(volts)
      span == HeuristicVHigh - HeuristicVLow
      num == HeuristicSohLow * span * n
               + (S - HeuristicVLow * n) * HeuristicSohSpan
  IN  SohResult(Max2(0, Min2(10000, round2(num, span * n))),
                "voltage_heuristic", "low")

\* 30 + (avg_voltage - 3.2) / (4.2 - 3.2) * 70, avg_voltage = S / n
VoltageBranch(raw) ==
  LET volts == [i \in 1..Len(raw.cells.val) |-> raw.cells.val[i].voltage]
      n == Len(volts)
      S == SumSeq(volts)
      span == HeuristicVHigh - HeuristicVLow
      num == HeuristicSohLow * span * n
               + (S - HeuristicVLow * n) * HeuristicSohSpan
  IN  SohResult(round2(num, span * n), "voltage_heuristic", "low")

\* compute_soh trying the cycle history before the measured capacity
compute_soh_history_first(raw) ==
  IF In(raw, "cycle_history") /\ Truthy(raw, "cycle_history")
  THEN CycleHistoryBranch(raw)
  ELSE IF In(raw, "measured_capacity_kwh") /\ In(raw, "nominal_capacity_kwh")
  THEN MeasuredBranch(raw)
  ELSE IF In(raw, "cells") /\ Truthy(raw, "cells")
  THEN VoltageBranch(raw)
  ELSE SohResult(0, "unknown", "none")

compute_soh(raw) ==
  IF In(raw, "measured_capacity_kwh") /\ In(raw, "nominal_capacity_kwh")
  THEN MeasuredBranch(raw)
  ELSE IF In(raw, "cycle_history") /\ Truthy(raw, "cycle_history")
  THEN CycleHistoryBranch(raw)
  ELSE IF In(raw, "cells") /\ Truthy(raw, "cells")
  THEN VoltageBranch(raw)
  ELSE SohResult(0, "unknown", "none")

(***************************************************************************)
(* count_cycles_from_soc                                                    *)
(***************************************************************************)
\* sum(abs(soc[i] - soc[i-1]) for i in range(1, len(soc)))
RECURSIVE TotalDeltaSoc(_, _)
TotalDeltaSoc(soc, i) ==
  IF i > Len(soc) THEN 0
  ELSE Abs(soc[i] - soc[i - 1]) + TotalDeltaSoc(soc, i + 1)

\* IsDeepStep with strict comparisons
IsDeepStep_strict(prev, cur) == prev > DeepHigh /\ cur < DeepLow

IsDeepStep(prev, cur) == prev >= DeepHigh /\ cur <= DeepLow

\* the loop over range(1, len(soc)) that increments deep_cycles
RECURSIVE DeepLoop(_, _, _)
DeepLoop(soc, i, deep_cycles) ==
  IF i > Len(soc) THEN deep_cycles
  ELSE DeepLoop(soc, i + 1,
                IF IsDeepStep(soc[i - 1], soc[i])
                THEN deep_cycles + 1 ELSE deep_cycles)

\* the sum counting only the discharge movements
RECURSIVE DischargeDeltaSoc(_, _)
DischargeDeltaSoc(soc, i) ==
  IF i > Len(soc) THEN 0
  ELSE (IF soc[i] < soc[i - 1] THEN soc[i - 1] - soc[i] ELSE 0)
         + DischargeDeltaSoc(soc, i + 1)

\* count_cycles_from_soc over the discharge movements alone
count_cycles_discharge_only(soc) ==
  IF Len(soc) < 2
  THEN [equivalent_full_cycles |-> 0, deep_cycles |-> 0]
  ELSE [equivalent_full_cycles |-> round2(DischargeDeltaSoc(soc, 2), 100),
        deep_cycles |-> DeepLoop(soc, 2, 0)]

\* soc is the sequence of the readings' 'soc' values;
\* equivalent_full_cycles is in hundredths
count_cycles_from_soc(soc) ==
  IF Len(soc) < 2
  THEN [equivalent_full_cycles |-> 0, deep_cycles |-> 0]
  ELSE LET total_delta_soc == TotalDeltaSoc(soc, 2)
       IN  [equivalent_full_cycles |-> round2(total_delta_soc, 100),
            deep_cycles |-> DeepLoop(soc, 2, 0)]

(***************************************************************************)
(* detect_anomalies                                                         *)
(***************************************************************************)
Anomaly(t, s, v) == [type |-> t, severity |-> s, value |-> v]

AnomalyList(l) == [exc |-> "", list |-> l]
AnomalyRaise(e) == [exc |-> e, list |-> <<>>]

\* VoltageCheck with the second test an 'if' instead of an 'elif'
VoltageCheck_no_elif(voltages) ==
  LET voltage_spread == MaxSeq(voltages) - MinSeq(voltages)
  IN  (IF voltage_spread >= SpreadMajor
       THEN <<Anomaly("voltage_imbalance", "major", 10 * voltage_spread)>>
       ELSE <<>>)
      \o (IF voltage_spread >= SpreadMinor
          THEN <<Anomaly("voltage_imbalance", "minor", 10 * voltage_spread)>>
          ELSE <<>>)

\* value: round(voltage_spread, 3), in thousandths of a volt
VoltageCheck(voltages) ==
  LET voltage_spread == MaxSeq(voltages) - MinSeq(voltages)
  IN  IF voltage_spread >= SpreadMajor
      THEN <<Anomaly("voltage_imbalance", "major", 10 * voltage_spread)>>
      ELSE IF voltage_spread >= SpreadMinor
      THEN <<Anomaly("voltage_imbalance", "minor", 10 * voltage_spread)>>
      ELSE <<>>

TempCheck(temps) ==
  IF MaxSeq(temps) >= TempCritical
  THEN <<Anomaly("overheating", "critical", MaxSeq(temps))>>
  ELSE IF MaxSeq(temps) >= TempWarning
  THEN <<Anomaly("overheating", "warning", MaxSeq(temps))>>
  ELSE <<>>

CellChecks(raw) ==
  IF In(raw, "cells") /\ Truthy(raw, "cells")
  THEN LET cs == raw.cells.val
           voltages == [i \in 1..Len(cs) |-> cs[i].voltage]
           temps == [i \in 1..Len(cs) |-> cs[i].temp_c]
       IN  VoltageCheck(voltages) \o TempCheck(temps)
  ELSE <<>>

\* PackGuard letting a cell_count of 0 through
PackGuard_nonneg(raw) ==
  /\ In(raw, "pack_voltage")
  /\ In(raw, "cell_count")
  /\ raw.cell_count.val >= 0

PackGuard(raw) ==
  /\ In(raw, "pack_voltage")
  /\ In(raw, "cell_count")
  /\ raw.cell_count.val > 0

\* pack_voltage is in tenths of a volt: implied_cell_v = pv / (10 * cc);
\* value: round(implied_cell_v, 2), in hundredths of a volt
PackCheck(raw) ==
  IF PackGuard(raw)
  THEN LET implied_cell_v ==
             truediv(raw.pack_voltage.val, 10 * raw.cell_count.val)
           inRange ==
             /\ ImpliedLow * implied_cell_v.den <= 10 * implied_cell_v.num
             /\ 10 * implied_cell_v.num <= ImpliedHigh * implied_cell_v.den
       IN  IF implied_cell_v.exc # "" THEN AnomalyRaise(implied_cell_v.exc)
           ELSE IF ~inRange
           THEN AnomalyList(<<Anomaly("pack_voltage_mismatch", "warning",
                                      round2(implied_cell_v.num,
                                             implied_cell_v.den))>>)
           ELSE AnomalyList(<<>>)
  ELSE AnomalyList(<<>>)

detect_anomalies(raw) ==
  LET anomalies == CellChecks(raw)
      pack == PackCheck(raw)
  IN  IF pack.exc # "" THEN AnomalyRaise(pack.exc)
      ELSE AnomalyList(anomalies \o pack.list)

(***************************************************************************)
(* generate_report                                                          *)
(***************************************************************************)
\* raw.get(k, default)
GetOr(raw, k, default) == IF In(raw, k) THEN raw[k] ELSE Some(default)

ReportRaise(e) ==
  [exc |-> e, vehicle_id |-> "", generated_at |-> 0,
   soh |-> SohRaise(e),
   cycles |-> [equivalent_full_cycles |-> 0, deep_cycles |-> 0],
   anomalies |-> <<>>,
   explanation |-> <<>>]

\* now: datetime.utcnow(); the explanation string is kept as the tuple of
\* the values formatted into it
generate_report(raw, now) ==
  LET soh == compute_soh(raw)
      cycles == count_cycles_from_soc(GetOr(raw, "soc_timeseries", <<>>).val)
      anomalies == detect_anomalies(raw)
  IN  IF soh.exc # "" THEN ReportRaise(soh.exc)
      ELSE IF anomalies.exc # "" THEN ReportRaise(anomalies.exc)
      ELSE [exc |-> "",
            vehicle_id |-> GetOr(raw, "vehicle_id", "Unknown").val,
            generated_at |-> now,
            soh |-> soh,
            cycles |-> cycles,
            anomalies |-> anomalies.list,
            explanation |-> <<soh.soh_percent, soh.method,
                              cycles.equivalent_full_cycles,
                              Len(anomalies.list)>>]

(***************************************************************************)
(* api.py: BatteryLog and create_battery_report                             *)
(***************************************************************************)
RequiredFields ==
  {"vehicle_id", "nominal_capacity_kwh", "pack_voltage", "cell_count",
   "cells", "soc_timeseries", "cycle_history"}

\* the request body satisfies the BatteryLog schema
Validates(body) == \A k \in RequiredFields : body[k].tag = "val"

\* log.dict(): every declared field is a key; an omitted Optional field
\* holds its default None
LogDict(body) ==
  [body EXCEPT !.measured_capacity_kwh =
     IF body.measured_capacity_kwh.tag = "val"
     THEN body.measured_capacity_kwh ELSE Null(0)]

HttpOk(report) ==
  [status |-> 200, detail |-> "", method |-> report.soh.method]
HttpError(code, msg) == [status |-> code, detail |-> msg, method |-> ""]

\* the response: 422 from schema validation before the handler runs, else
\* the handler's return value or its HTTPException(500, str(e))
create_battery_report(body, now) ==
  IF ~Validates(body) THEN HttpError(422, "validation")
  ELSE LET report == generate_report(LogDict(body), now)
       IN  IF report.exc # "" THEN HttpError(500, report.exc)
           ELSE HttpOk(report)

(***************************************************************************)
(* battery_report.py run as a script                                        *)
(***************************************************************************)
\* file: [state, data]; state is "missing" (open fails), "invalid"
\* (json.load fails) or "json" (data is the decoded dict).  No handler calls
\* sys.exit and every Exception is caught, so the interpreter ends normally.
main(file, now) ==
  IF file.state = "missing"
  THEN [logged |-> "FileNotFoundError", wrote_file |-> FALSE, exit_status |-> 0]
  ELSE IF file.state = "invalid"
  THEN [logged |-> "JSONDecodeError", wrote_file |-> FALSE, exit_status |-> 0]
  ELSE LET report == generate_report(file.data, now)
       IN  IF report.exc # ""
           THEN [logged |-> report.exc, wrote_file |-> FALSE, exit_status |-> 0]
           ELSE [logged |-> "info", wrote_file |-> TRUE, exit_status |-> 0]

(***************************************************************************)
(* Inputs                                                                   *)
(***************************************************************************)
SeqsUpTo(S, n) == UNION {[1..k -> S] : k \in 0..n}

NominalVals == {0, 7500, 8000}
MeasuredVals == {5325, 8000}
EnergyVals == {6000, 6200}
SocVals == {18, 20, 25, 88, 90, 95}
PackVoltageVals == {24, 25, 45, 46, 49, 50, 90, 91, 2000}
CellCountVals == {-1, 0, 1, 2, 96}

Cell(v, t) == [voltage |-> v, temp_c |-> t]
CellVals ==
  {Cell(360, 30), Cell(364, 44), Cell(365, 45),
   Cell(370, 60), Cell(371, 62), Cell(520, 25)}

OptOf(S, d) == {Absent(d)} \cup {Some(v) : v \in S}

MkRaw(nom, meas, hist, cells, soc, pv, cc, vid) ==
  [nominal_capacity_kwh |-> nom, measured_capacity_kwh |-> meas,
   cycle_history |-> hist, cells |-> cells, soc_timeseries |-> soc,
   pack_voltage |-> pv, cell_count |-> cc, vehicle_id |-> vid]

\* dicts handed straight to compute_soh: the keys it reads
SohInputs ==
  {MkRaw(nom, meas, hist, cells, Absent(<<>>), Absent(0), Absent(0), Absent(""))
     : nom \in OptOf(NominalVals, 0),
       meas \in OptOf(MeasuredVals, 0) \cup {Null(0)},
       hist \in OptOf(SeqsUpTo(EnergyVals, MaxHistory), <<>>),
       cells \in OptOf(SeqsUpTo(CellVals, MaxCells), <<>>)}

\* SoC series handed straight to count_cycles_from_soc
SocInputs == SeqsUpTo(SocVals, MaxSoc)

\* dicts handed straight to detect_anomalies: the keys it reads
AnomalyInputs ==
  {MkRaw(Absent(0), Absent(0), Absent(<<>>), cells, Absent(<<>>), pv, cc,
         Absent(""))
     : cells \in OptOf(SeqsUpTo(CellVals, MaxCells), <<>>),
       pv \in OptOf(PackVoltageVals, 0),
       cc \in OptOf(CellCountVals, 0)}

\* whole diagnostic logs, for generate_report and the two transports
LogHistories == {<<>>, <<6000>>, <<6000, 6200>>}
LogCells ==
  {<<>>, <<Cell(370, 25), Cell(370, 25)>>, <<Cell(360, 30), Cell(371, 62)>>,
   <<Cell(520, 25)>>}
LogSocs == {<<>>, <<95, 18>>, <<95, 18, 88, 25>>}
LogPacks == {<<Absent(0), Absent(0)>>, <<Some(45), Some(1)>>,
             <<Some(2000), Some(96)>>, <<Some(90), Some(0)>>}

LogInputs ==
  {MkRaw(nom, meas, hist, cells, soc, p[1], p[2], vid)
     : nom \in OptOf({0, 8000}, 0),
       meas \in {Absent(0), Null(0), Some(5325)},
       hist \in OptOf(LogHistories, <<>>),
       cells \in OptOf(LogCells, <<>>),
       soc \in OptOf(LogSocs, <<>>),
       p \in LogPacks,
       vid \in OptOf({"VIN-TEST-001"}, "")}

\* request bodies: the optional field is given or omitted, and one required
\* field may be missing
RequestInputs ==
  {r \in LogInputs :
     /\ r.measured_capacity_kwh.tag # "null"
     /\ \A k \in RequiredFields \ {"nominal_capacity_kwh"} : r[k].tag = "val"}

FileInputs ==
  {[state |-> "missing", data |-> <<>>], [state |-> "invalid", data |-> <<>>]}
    \cup {[state |-> "json", data |-> r] : r \in LogInputs}

Clock == 1..MaxClock

(***************************************************************************)
(* State machine                                                            *)
(***************************************************************************)
NoHttp == [status |-> 0, detail |-> "", method |-> ""]
NoProc == [logged |-> "", wrote_file |-> FALSE, exit_status |-> 0]

Init ==
  /\ pc = "idle"
  /\ op = ""
  /\ arg = <<>>
  /\ ret = <<>>
  /\ http = NoHttp
  /\ proc = NoProc

CallComputeSoh ==
  /\ pc = "idle"
  /\ \E raw \in SohInputs :
       /\ arg' = raw
       /\ ret' = compute_soh(raw)
  /\ op' = "compute_soh"
  /\ pc' = "done"
  /\ UNCHANGED <<http, proc>>

CallCountCycles ==
  /\ pc = "idle"
  /\ \E soc \in SocInputs :
       /\ arg' = soc
       /\ ret' = count_cycles_from_soc(soc)
  /\ op' = "count_cycles_from_soc"
  /\ pc' = "done"
  /\ UNCHANGED <<http, proc>>

CallDetectAnomalies ==
  /\ pc = "idle"
  /\ \E raw \in AnomalyInputs :
       /\ arg' = raw
       /\ ret' = detect_anomalies(raw)
  /\ op' = "detect_anomalies"
  /\ pc' = "done"
  /\ UNCHANGED <<http, proc>>

CallGenerateReport ==
  /\ pc = "idle"
  /\ \E raw \in LogInputs, now \in Clock :
       /\ arg' = raw
       /\ ret' = generate_report(raw, now)
  /\ op' = "generate_report"
  /\ pc' = "done"
  /\ UNCHANGED <<http, proc>>

\* POST /v1/battery_report
PostBatteryReport ==
  /\ pc = "idle"
  /\ \E body \in RequestInputs, now \in Clock :
       /\ arg' = body
       /\ ret' = IF Validates(body)
                 THEN generate_report(LogDict(body), now)
                 ELSE ReportRaise("not called")
       /\ http' = create_battery_report(body, now)
  /\ op' = "create_battery_report"
  /\ pc' = "done"
  /\ UNCHANGED proc

\* python battery_report.py <file>
RunMain ==
  /\ pc = "idle"
  /\ \E file \in FileInputs, now \in Clock :
       /\ arg' = file
       /\ ret' = IF file.state = "json"
                 THEN generate_report(file.data, now)
                 ELSE ReportRaise("not called")
       /\ proc' = main(file, now)
  /\ op' = "main"
  /\ pc' = "done"
  /\ UNCHANGED http

Next ==
  \/ CallComputeSoh
  \/ CallCountCycles
  \/ CallDetectAnomalies
  \/ CallGenerateReport
  \/ PostBatteryReport
  \/ RunMain

Spec == Init /\ [][Next]_vars

(***************************************************************************)
(* Properties                                                               *)
(***************************************************************************)
\* s is a nearest hundredth of num / den (den > 0)
IsRound2(s, num, den) == 2 * Abs(s * den - 100 * num) <= den

Types(l) == [i \in 1..Len(l) |-> l[i].type]

NominalUsable(raw) ==
  raw.nominal_capacity_kwh.tag = "val" /\ raw.nominal_capacity_kwh.val # 0

\* ---- C1 ----------------------------------------------------------------
\* every capacity that is present is a number, and the rated capacity is
\* positive, as the data model types them
ValuesWellTyped(raw) ==
  /\ raw.measured_capacity_kwh.tag # "null"
  /\ raw.nominal_capacity_kwh.tag # "null"
  /\ In(raw, "nominal_capacity_kwh") => raw.nominal_capacity_kwh.val > 0

\* C1 as stated, read over well-typed values only: compute_soh always
\* returns, by the first applicable method:
\* measured_capacity/high with soh_percent = round(measured/nominal*100, 2)
\* when both keys are present, else cycle_history_estimate/medium for a
\* non-empty cycle_history, else voltage_heuristic/low for non-empty cells,
\* else soh_percent 0, unknown/none.
C1_Original ==
  (op = "compute_soh" /\ ValuesWellTyped(arg)) =>
    IF In(arg, "measured_capacity_kwh") /\ In(arg, "nominal_capacity_kwh")
    THEN /\ ret.exc = ""
         /\ ret.method = "measured_capacity"
         /\ ret.confidence = "high"
         /\ IsRound2(ret.soh_percent, 100 * arg.measured_capacity_kwh.val,
                     arg.nominal_capacity_kwh.val)
    ELSE IF Truthy(arg, "cycle_history")
    THEN /\ ret.exc = ""
         /\ ret.method = "cycle_history_estimate"
         /\ ret.confidence = "medium"
    ELSE IF Truthy(arg, "cells")
    THEN /\ ret.exc = ""
         /\ ret.method = "voltage_heuristic"
         /\ ret.confidence = "low"
    ELSE /\ ret.exc = ""
         /\ ret.soh_percent = 0
         /\ ret.method = "unknown"
         /\ ret.confidence = "none"

\* C1 amended: compute_soh takes the first applicable branch in the order
\* measured capacity, cycle history, cell voltages, unknown, and the two
\* branches that divide by nominal_capacity_kwh raise instead of returning
\* when they cannot divide.  With both capacity keys present the measured
\* branch is taken whatever cells and cycle_history hold: it returns
\* measured_capacity/high with soh_percent = round(measured/nominal*100, 2)
\* when measured is a number and nominal is not 0, raises TypeError when
\* measured is None and ZeroDivisionError when nominal is 0.  Otherwise a
\* non-empty cycle_history takes the cycle-history branch: it returns
\* cycle_history_estimate/medium when nominal is present and not 0, raises
\* KeyError when nominal is absent and ZeroDivisionError when it is 0.
\* Otherwise non-empty cells give voltage_heuristic/low, and otherwise the
\* result is soh_percent 0, unknown/none.
C1_PriorityOrder ==
  op = "compute_soh" =>
    IF In(arg, "measured_capacity_kwh") /\ In(arg, "nominal_capacity_kwh")
    THEN IF arg.measured_capacity_kwh.tag = "val" /\ NominalUsable(arg)
         THEN /\ ret.exc = ""
              /\ ret.method = "measured_capacity"
              /\ ret.confidence = "high"
              /\ IsRound2(ret.soh_percent,
                          100 * arg.measured_capacity_kwh.val,
                          arg.nominal_capacity_kwh.val)
         ELSE ret.exc = IF arg.measured_capacity_kwh.tag = "null"
                        THEN "TypeError" ELSE "ZeroDivisionError"
    ELSE IF Truthy(arg, "cycle_history")
    THEN IF NominalUsable(arg)
         THEN /\ ret.exc = ""
              /\ ret.method = "cycle_history_estimate"
              /\ ret.confidence = "medium"
         ELSE ret.exc = IF In(arg, "nominal_capacity_kwh")
                        THEN "ZeroDivisionError" ELSE "KeyError"
    ELSE IF Truthy(arg, "cells")
    THEN /\ ret.exc = ""
         /\ ret.method = "voltage_heuristic"
         /\ ret.confidence = "low"
    ELSE /\ ret.exc = ""
         /\ ret.soh_percent = 0
         /\ ret.method = "unknown"
         /\ ret.confidence = "none"

\* both capacities given as numbers beside a non-empty cycle_history and
\* non-empty cells, and the measured method answered
C1_Witness ==
  /\ op = "compute_soh"
  /\ arg.measured_capacity_kwh.tag = "val"
  /\ NominalUsable(arg)
  /\ Truthy(arg, "cycle_history")
  /\ Truthy(arg, "cells")
  /\ ret.method = "measured_capacity"
  /\ ret.soh_percent = 7100

\* ---- C2 ----------------------------------------------------------------
\* C2: a request to create_battery_report that omits measured_capacity_kwh
\* and carries a non-empty cycle_history is answered with a report whose
\* soh.method is cycle_history_estimate, not with an error response.
C2_OmittedMeasuredUsesHistory ==
  ( /\ op = "create_battery_report"
    /\ Validates(arg)
    /\ arg.measured_capacity_kwh.tag = "absent"
    /\ Len(arg.cycle_history.val) > 0 )
  => /\ http.status = 200
     /\ http.method = "cycle_history_estimate"

\* ---- C3 ----------------------------------------------------------------
\* C3: count_cycles_from_soc on the SoC series [95, 18, 88, 25] returns
\* equivalent_full_cycles 1.4 and deep_cycles 1.
C3_TestCycleCounting ==
  (op = "count_cycles_from_soc" /\ arg = <<95, 18, 88, 25>>)
  => /\ ret.equivalent_full_cycles = 140
     /\ ret.deep_cycles = 1

\* ---- C4 ----------------------------------------------------------------
ChargeMoves(soc) ==
  [i \in 1..(Len(soc) - 1) |->
     IF soc[i + 1] > soc[i] THEN soc[i + 1] - soc[i] ELSE 0]
DischargeMoves(soc) ==
  [i \in 1..(Len(soc) - 1) |->
     IF soc[i + 1] < soc[i] THEN soc[i] - soc[i + 1] ELSE 0]

C5_DeepCycles ==
  op = "count_cycles_from_soc" =>
    ret.deep_cycles
      = Cardinality({i \in 2..Len(arg) : arg[i - 1] >= 90 /\ arg[i] <= 20})

\* high, middle, low: no deep cycle counted
C5_Witness ==
  /\ op = "count_cycles_from_soc"
  /\ Len(arg) = 3
  /\ arg[1] >= 90
  /\ arg[2] > 20 /\ arg[2] < 90
  /\ arg[3] <= 20
  /\ ret.deep_cycles = 0

\* ---- C6 ----------------------------------------------------------------
TypeRank(t) ==
  CASE t = "voltage_imbalance" -> 1
    [] t = "overheating" -> 2
    [] t = "pack_voltage_mismatch" -> 3
    [] OTHER -> 0

SpreadCondition(raw) ==
  /\ Truthy(raw, "cells")
  /\ \E i, j \in 1..Len(raw.cells.val) :
       raw.cells.val[i].voltage - raw.cells.val[j].voltage >= 5
HeatCondition(raw) ==
  /\ Truthy(raw, "cells")
  /\ \E i \in 1..Len(raw.cells.val) : raw.cells.val[i].temp_c >= 45
PackCondition(raw) ==
  /\ raw.pack_voltage.tag = "val"
  /\ raw.cell_count.tag = "val"
  /\ raw.cell_count.val > 0
  /\ \/ raw.pack_voltage.val < 25 * raw.cell_count.val
     \/ raw.pack_voltage.val > 45 * raw.cell_count.val

\* C6: the list detect_anomalies returns holds at most one entry of each
\* type, in the order voltage_imbalance, overheating, pack_voltage_mismatch
\* (length at most 3); an input meeting all three conditions yields exactly
\* the three entries in that order.
C6_AnomalyOrder ==
  op = "detect_anomalies" =>
    /\ ret.exc = ""
    /\ Len(ret.list) <= 3
    /\ \A i \in 1..Len(ret.list) : TypeRank(ret.list[i].type) > 0
    /\ \A i, j \in 1..Len(ret.list) :
         i < j => TypeRank(ret.list[i].type) < TypeRank(ret.list[j].type)
    /\ (SpreadCondition(arg) /\ HeatCondition(arg) /\ PackCondition(arg))
         => Types(ret.list)
              = <<"voltage_imbalance", "overheating", "pack_voltage_mismatch">>

\* all three conditions at once, three entries
C6_Witness ==
  /\ op = "detect_anomalies"
  /\ SpreadCondition(arg) /\ HeatCondition(arg) /\ PackCondition(arg)
  /\ Len(ret.list) = 3

\* ---- C7 ----------------------------------------------------------------
OnlyCells(raw) ==
  /\ ~In(raw, "measured_capacity_kwh")
  /\ ~Truthy(raw, "cycle_history")
  /\ Truthy(raw, "cells")

\* the mean cell voltage is 5.2 V
MeanIs520(raw) ==
  SumSeq([i \in 1..Len(raw.cells.val) |-> raw.cells.val[i].voltage])
    = 520 * Len(raw.cells.val)

\* C7 as stated: with only cells populated and a mean cell voltage of 5.2 V,
\* compute_soh returns voltage_heuristic with soh_percent 230.0.
C7_Original ==
  (op = "compute_soh" /\ OnlyCells(arg) /\ MeanIs520(arg))
  => /\ ret.method = "voltage_heuristic"
     /\ ret.soh_percent = 23000

\* C7 amended: with only cells populated and a mean cell voltage of 5.2 V,
\* compute_soh returns voltage_heuristic with soh_percent 170.0, the value
\* of the linear, unclamped mapping of [3.2 V, 4.2 V] onto [30%, 100%].
C7_Unclamped ==
  (op = "compute_soh" /\ OnlyCells(arg) /\ MeanIs520(arg))
  => /\ ret.exc = ""
     /\ ret.method = "voltage_heuristic"
     /\ ret.soh_percent = 17000

\* a dict with cells alone, at a mean of 5.2 V, answered by the heuristic
C7_Witness ==
  /\ op = "compute_soh"
  /\ OnlyCells(arg)
  /\ MeanIs520(arg)
  /\ ~In(arg, "nominal_capacity_kwh")
  /\ ret.method = "voltage_heuristic"
  /\ ret.soh_percent > 10000

\* ---- C8 ----------------------------------------------------------------
\* C8 as stated: whenever nominal_capacity_kwh is absent, generate_report
\* ends in an error and returns no report, whatever the other fields hold.
C8_Original ==
  (op = "generate_report" /\ ~In(arg, "nominal_capacity_kwh"))
  => ret.exc # ""

\* C8 amended: when nominal_capacity_kwh is absent, generate_report ends in
\* an error (KeyError) and returns no report exactly when cycle_history is
\* non-empty; with cycle_history absent or empty it returns a report, by
\* voltage_heuristic when cells is non-empty and otherwise with method
\* unknown and soh_percent 0.
C8_AbsentNominal ==
  (op = "generate_report" /\ ~In(arg, "nominal_capacity_kwh"))
  => IF Truthy(arg, "cycle_history")
     THEN ret.exc = "KeyError"
     ELSE /\ ret.exc = ""
          /\ IF Truthy(arg, "cells")
             THEN ret.soh.method = "voltage_heuristic"
             ELSE ret.soh.method = "unknown" /\ ret.soh.soh_percent = 0

\* no nominal capacity, a cycle history, and the call raised
C8_Witness ==
  /\ op = "generate_report"
  /\ ~In(arg, "nominal_capacity_kwh")
  /\ Truthy(arg, "cycle_history")
  /\ ret.exc = "KeyError"

\* ---- C9 ----------------------------------------------------------------
\* C9: whenever generate_report raises, the transport reports a failure: the
\* HTTP handler answers 500 with the error message, and the script logs the
\* error, writes no output file and exits with a non-zero status.
C9_ErrorsSurface ==
  /\ (op = "create_battery_report" /\ Validates(arg) /\ ret.exc # "")
       => (http.status = 500 /\ http.detail = ret.exc)
  /\ (op = "main" /\ arg.state = "json" /\ ret.exc # "")
       => /\ proc.logged = ret.exc
          /\ ~proc.wrote_file
          /\ proc.exit_status # 0

\* ---- C10 ---------------------------------------------------------------
HasPackMismatch(l) ==
  \E i \in 1..Len(l) : l[i].type = "pack_voltage_mismatch"

\* C10: detect_anomalies adds a pack_voltage_mismatch entry, of severity
\* warning, if and only if cell_count > 0 and pack_voltage / cell_count is
\* outside [2.5, 4.5], the two ends giving no entry; for cell_count = 0 it
\* raises no error and adds no such entry.
C10_PackMismatch ==
  op = "detect_anomalies" =>
    /\ ret.exc = ""
    /\ HasPackMismatch(ret.list) <=> PackCondition(arg)
    /\ \A i \in 1..Len(ret.list) :
         ret.list[i].type = "pack_voltage_mismatch"
           => ret.list[i].severity = "warning"

\* a pack voltage with a cell_count of 0: returned, without the entry
C10_Witness ==
  /\ op = "detect_anomalies"
  /\ arg.pack_voltage.tag = "val"
  /\ arg.cell_count.tag = "val"
  /\ arg.cell_count.val = 0
  /\ ret.exc = ""
  /\ ~HasPackMismatch(ret.list)

====
